---------------------------- MODULE Spec2Model ----------------------------
(* Leveraged bond reinvestment simulator (src/app.py).                      *)
(*                                                                          *)
(* The script runs top to bottom: the sidebar widgets deliver the           *)
(* parameters, the state is initialised, the monthly loop appends one       *)
(* record per month, the final figures are derived from the last record     *)
(* and the chart series are derived from the record table.                  *)
(*                                                                          *)
(* Numbers.  The script computes in binary64 floating point.  The model     *)
(* computes in fixed point: an amount of money is an integer number of      *)
(* 1/Resolution rupee, a rate is an integer number of tenths of a percent   *)
(* per annum (the sliders' step), the leverage ratio an integer number of   *)
(* tenths, and every product with a monthly rate is rounded to the nearest  *)
(* unit, as a floating point product is rounded to the nearest              *)
(* representable value.  Sums and differences are exact.                    *)
EXTENDS Integers, Sequences, FiniteSets

(***************************************************************************)
(* Units and widget ranges                                                 *)
(***************************************************************************)

\* fixed-point units per rupee
Resolution == 100

\* rate / 12 / 100 (lines 68-70); rates and leverage are held in tenths
MonthsPerYear == 12
PercentBase == 100
Tenths == 10

\* st.number_input "Initial Investment": min_value, step (rupees)
MinInvestment == 10000
InvestmentStep == 10000
\* number of +step presses on the number input that the model explores
MaxInvestmentSteps == 1

\* st.slider ranges, in tenths: min_value, value (default), max_value
HighYieldRateMin == 10
HighYieldRateDefault == 140
HighYieldRateMax == 300
TreasuryRateMin == 10
TreasuryRateDefault == 120
TreasuryRateMax == 200
BorrowingRateMin == 10
BorrowingRateDefault == 100
BorrowingRateMax == 200
LeverageMin == 10
LeverageMax == 30
MonthsMin == 1
MonthsMax == 60

\* the values each widget delivers in the model: the ends of its range and
\* its default
InitialInvestments ==
    { (MinInvestment + k * InvestmentStep) * Resolution : k \in 0..MaxInvestmentSteps }
HighYieldRates == {HighYieldRateMin, HighYieldRateDefault, HighYieldRateMax}
TreasuryRates == {TreasuryRateMin, TreasuryRateDefault, TreasuryRateMax}
BorrowingRates == {BorrowingRateMin, BorrowingRateDefault, BorrowingRateMax}
LeverageRatios == {LeverageMin, LeverageMax}
MonthChoices == MonthsMin..MonthsMax

(***************************************************************************)
(* Arithmetic                                                              *)
(***************************************************************************)

\* a / b rounded to the nearest integer (half away from zero), b > 0
RoundDiv(a, b) ==
    IF a >= 0 THEN (2 * a + b) \div (2 * b)
              ELSE -((2 * (-a) + b) \div (2 * b))

\* tenths of a percent per annum -> divisor of the monthly rate:
\* rate / 12 / 100 with rate = tenths / 10
MonthlyDivisor == MonthsPerYear * PercentBase * Tenths

\* principal * monthly_rate, for principal >= 0: the product
\* principal * rate / MonthlyDivisor rounded to the nearest unit.  The
\* quotient is split so that no intermediate value leaves 32 bits.
Interest(principal, rate) ==
    (principal \div MonthlyDivisor) * rate
    + RoundDiv((principal % MonthlyDivisor) * rate, MonthlyDivisor)

VARIABLES
    pc,                  \* position in the script
    initial_investment, high_yield_rate, treasury_rate, borrowing_rate,
    months, leverage_ratio,
    borrowed_amount,
    high_yield_principal, treasury_principal, borrowed_balance,
    total_reinvested, loan_interest_paid,
    month,               \* the loop variable
    records,
    final_treasury, total_loan_cost, investor_final, net_profit,
    annualized_return,   \* tenths of a percent
    loan_balance_series, net_value_series,
    error                \* the exception that ended the script, or "none"

inputs == <<initial_investment, high_yield_rate, treasury_rate, borrowing_rate,
            months, leverage_ratio>>
balances == <<borrowed_amount, high_yield_principal, treasury_principal,
              borrowed_balance, total_reinvested, loan_interest_paid>>
finals == <<final_treasury, total_loan_cost, investor_final, net_profit,
            annualized_return>>
series == <<loan_balance_series, net_value_series>>
vars == <<pc, inputs, balances, month, records, finals, series, error>>

(***************************************************************************)
(* The script                                                              *)
(***************************************************************************)

\* before the widgets have delivered anything
Init ==
    /\ pc = "sidebar"
    /\ initial_investment = 0 /\ high_yield_rate = 0 /\ treasury_rate = 0
    /\ borrowing_rate = 0 /\ months = 0 /\ leverage_ratio = 0
    /\ borrowed_amount = 0
    /\ high_yield_principal = 0 /\ treasury_principal = 0
    /\ borrowed_balance = 0
    /\ total_reinvested = 0 /\ loan_interest_paid = 0
    /\ month = 0
    /\ records = << >>
    /\ final_treasury = 0 /\ total_loan_cost = 0 /\ investor_final = 0
    /\ net_profit = 0 /\ annualized_return = 0
    /\ loan_balance_series = << >> /\ net_value_series = << >>
    /\ error = "none"

\* lines 27-62: each widget returns a value inside its range
Sidebar ==
    /\ pc = "sidebar"
    /\ initial_investment' \in InitialInvestments
    /\ high_yield_rate' \in HighYieldRates
    /\ treasury_rate' \in TreasuryRates
    /\ borrowing_rate' \in BorrowingRates
    /\ months' \in MonthChoices
    /\ leverage_ratio' \in LeverageRatios
    /\ pc' = "setup"
    /\ UNCHANGED <<balances, month, records, finals, series, error>>

\* line 65: initial_investment * leverage_ratio
BorrowedAmount == (initial_investment * leverage_ratio) \div Tenths

\* lines 64-80
Setup ==
    /\ pc = "setup"
    /\ borrowed_amount' = BorrowedAmount
    /\ high_yield_principal' = initial_investment
    /\ treasury_principal' = BorrowedAmount
    /\ borrowed_balance' = BorrowedAmount
    /\ total_reinvested' = 0
    /\ loan_interest_paid' = 0
    /\ records' = << >>
    /\ month' = 1
    /\ pc' = "loop"
    /\ UNCHANGED <<inputs, finals, series, error>>

\* line 82: range(1, months + 1) still has a value to deliver
LoopContinuesOffByOne == month < months
LoopContinues == month <= months

\* line 84
HighYieldInterest == Interest(high_yield_principal, high_yield_rate)

\* line 85: on the balance carried into the month
TreasuryInterestAfterDeposit ==
    Interest(treasury_principal + HighYieldInterest, treasury_rate)
TreasuryInterest == Interest(treasury_principal, treasury_rate)

\* line 88
TotalReinvestment == HighYieldInterest + TreasuryInterest

\* line 89: treasury_principal += total_reinvestment
TreasuryOverwritten == TotalReinvestment
TreasuryAfterReinvestment == treasury_principal + TotalReinvestment

\* line 93: on borrowed_balance, at the monthly rate
MonthlyLoanInterestAtAnnualRate ==
    Interest(borrowed_balance, borrowing_rate * MonthsPerYear)
MonthlyLoanInterest == Interest(borrowed_balance, borrowing_rate)

\* line 94: loan_interest_paid += monthly_loan_interest
LoanInterestRepaid == loan_interest_paid - MonthlyLoanInterest
LoanInterestAccrued == loan_interest_paid + MonthlyLoanInterest

\* lines 97-105
Record ==
    [ Month |-> month,
      HighYieldInterest |-> HighYieldInterest,
      TreasuryInterest |-> TreasuryInterest,
      TotalReinvested |-> TotalReinvestment,
      TreasuryBalance |-> TreasuryAfterReinvestment,
      LoanInterestPaid |-> MonthlyLoanInterest,
      CumulativeLoanInterest |-> LoanInterestAccrued ]

\* the loop body with the loan interest added to the running balance
LoopStepLoanCompounds ==
    /\ pc = "loop"
    /\ LoopContinues
    /\ treasury_principal' = TreasuryAfterReinvestment
    /\ total_reinvested' = total_reinvested + TotalReinvestment
    /\ loan_interest_paid' = LoanInterestAccrued
    /\ borrowed_balance' = borrowed_balance + MonthlyLoanInterest
    /\ records' = Append(records, Record)
    /\ month' = month + 1
    /\ UNCHANGED <<pc, inputs, borrowed_amount, high_yield_principal,
                   finals, series, error>>

\* the loop body with the high-yield interest compounded into its principal
LoopStepHighYieldCompounds ==
    /\ pc = "loop"
    /\ LoopContinues
    /\ treasury_principal' = TreasuryAfterReinvestment
    /\ total_reinvested' = total_reinvested + TotalReinvestment
    /\ loan_interest_paid' = LoanInterestAccrued
    /\ high_yield_principal' = high_yield_principal + HighYieldInterest
    /\ records' = Append(records, Record)
    /\ month' = month + 1
    /\ UNCHANGED <<pc, inputs, borrowed_amount, borrowed_balance,
                   finals, series, error>>

\* lines 82-105: one iteration
LoopStep ==
    /\ pc = "loop"
    /\ LoopContinues
    /\ treasury_principal' = TreasuryAfterReinvestment
    /\ total_reinvested' = total_reinvested + TotalReinvestment
    /\ loan_interest_paid' = LoanInterestAccrued
    /\ records' = Append(records, Record)
    /\ month' = month + 1
    /\ UNCHANGED <<pc, inputs, borrowed_amount, high_yield_principal,
                   borrowed_balance, finals, series, error>>

\* df.iloc[-1]
FirstRecord == records[1]
LastRecord == records[Len(records)]

\* line 117: (net_profit / initial_investment) * (12 / months) * 100, in
\* tenths of a percent.  initial_investment is a whole number of rupees
\* divisible by PercentBase * Tenths, so the divisor is exact.
AnnualizedNotProRated(profit, capital, n) ==
    RoundDiv(profit, capital \div (PercentBase * Tenths))
Annualized(profit, capital, n) ==
    RoundDiv(profit * MonthsPerYear, (capital \div (PercentBase * Tenths)) * n)

\* lines 107-117, entered when the loop has delivered its last month
Finalize ==
    /\ pc = "loop"
    /\ ~LoopContinues
    /\ IF records = << >>
       THEN \* line 111: df.iloc[-1] of an empty frame
            /\ error' = "IndexError"
            /\ pc' = "failed"
            /\ UNCHANGED finals
       ELSE LET treasury == LastRecord.TreasuryBalance
                cost == borrowed_amount + LastRecord.CumulativeLoanInterest
                final == high_yield_principal + treasury - cost
                profit == final - initial_investment
            IN  /\ final_treasury' = treasury
                /\ total_loan_cost' = cost
                /\ investor_final' = final
                /\ net_profit' = profit
                /\ IF initial_investment = 0 \/ months = 0
                   THEN \* line 117: float division by zero
                        /\ annualized_return' = annualized_return
                        /\ error' = "ZeroDivisionError"
                        /\ pc' = "failed"
                   ELSE /\ annualized_return' =
                               Annualized(profit, initial_investment, months)
                        /\ error' = error
                        /\ pc' = "final"
    /\ UNCHANGED <<inputs, balances, month, records, series>>

\* line 151: the "Loan Balance" curve
LoanBalanceSeries ==
    [ k \in 1..Len(records) |->
        borrowed_amount + records[k].CumulativeLoanInterest ]

\* line 153: the "Your Net Value" curve
NetValueSeries ==
    [ k \in 1..Len(records) |->
        initial_investment
        + (records[k].TreasuryBalance - records[k].CumulativeLoanInterest
           - borrowed_amount) ]

\* lines 119-163: summary, table and chart
Plot ==
    /\ pc = "final"
    /\ loan_balance_series' = LoanBalanceSeries
    /\ net_value_series' = NetValueSeries
    /\ pc' = "done"
    /\ UNCHANGED <<inputs, balances, month, records, finals, error>>

Next == Sidebar \/ Setup \/ LoopStep \/ Finalize \/ Plot

Spec == Init /\ [][Next]_vars

(***************************************************************************)
(* Properties                                                              *)
(***************************************************************************)

\* the loop has run to its end and the script went on
LoopOver == pc \in {"final", "done", "failed"}

\* the balance the secondary instrument carried into month k
OpeningTreasury(k) ==
    IF k = 1 THEN borrowed_amount ELSE records[k - 1].TreasuryBalance

\* the amount owed after month k: no running balance is kept
Owed(k) == borrowed_amount + records[k].CumulativeLoanInterest

\* the investor's net value after month k
NetValue(k) ==
    initial_investment + records[k].TreasuryBalance
    - borrowed_amount - records[k].CumulativeLoanInterest

\* C1: the k-th record carries Month = k at every moment of the run, and
\* once the loop is over there are exactly `months` records: the month
\* numbers are 1, 2, ..., months with no gap, repeat or reordering.
C1_MonthsInOrder ==
    /\ \A k \in 1..Len(records) : records[k].Month = k
    /\ Len(records) <= months
    /\ LoopOver => Len(records) = months

C1_Witness ==
    /\ pc = "done"
    /\ months = 7
    /\ Len(records) = 7
    /\ records[7].Month = 7

\* C2 (as stated): after every month borrowed_balance has been increased
\* by the month's borrowing cost, so it equals borrowed_amount plus the
\* cumulative loan interest.
C2_LoanCompounds ==
    pc \in {"loop", "final", "done"} =>
        borrowed_balance = borrowed_amount + loan_interest_paid

\* C2 (amended): every month's borrowing cost is computed on
\* borrowed_balance, which no step changes: it stays equal to
\* borrowed_amount, every month's cost is the same amount
\* borrowed_amount x monthly_borrow_rate, and after k months the cumulative
\* loan interest is k times that amount (simple interest).
C2_LoanSimpleInterest ==
    pc \in {"loop", "final", "done"} =>
        /\ borrowed_balance = borrowed_amount
        /\ \A k \in 1..Len(records) :
              /\ records[k].LoanInterestPaid =
                     Interest(borrowed_amount, borrowing_rate)
              /\ records[k].CumulativeLoanInterest =
                     k * Interest(borrowed_amount, borrowing_rate)

C2_Witness ==
    /\ pc = "done"
    /\ Len(records) = 24
    /\ records[24].LoanInterestPaid > 0
    /\ records[24].CumulativeLoanInterest = 24 * records[1].LoanInterestPaid
    /\ borrowed_balance = borrowed_amount

\* C3: in every month the secondary interest is computed on the balance
\* carried in from the previous month (borrowed_amount in month 1), the
\* high-yield interest on the constant high-yield principal, and the
\* closing secondary balance is the opening balance plus the two
\* interests, nothing else.
C3_CombinedReinvestment ==
    \A k \in 1..Len(records) :
        /\ records[k].TreasuryInterest =
               Interest(OpeningTreasury(k), treasury_rate)
        /\ records[k].HighYieldInterest =
               Interest(initial_investment, high_yield_rate)
        /\ records[k].TotalReinvested =
               records[k].HighYieldInterest + records[k].TreasuryInterest
        /\ records[k].TreasuryBalance =
               OpeningTreasury(k) + records[k].HighYieldInterest
               + records[k].TreasuryInterest

\* initial 10000, leverage 1.0, 14 % / 12 % / 10 %: month 1 earns 116.67
\* and 100.00, closing 10216.67; month 2 earns 102.17 on 10216.67
C3_Witness ==
    /\ Resolution = 100
    /\ Len(records) = 2
    /\ initial_investment = 1000000 /\ leverage_ratio = 10
    /\ high_yield_rate = 140 /\ treasury_rate = 120 /\ borrowing_rate = 100
    /\ records[1].HighYieldInterest = 11667
    /\ records[1].TreasuryInterest = 10000
    /\ records[1].TreasuryBalance = 1021667
    /\ records[1].LoanInterestPaid = 8333
    /\ records[2].TreasuryInterest = 10217
    /\ records[2].TreasuryBalance = 1021667 + 11667 + 10217
    /\ treasury_principal = records[2].TreasuryBalance

AnnualizationDivisor ==
    (initial_investment \div (PercentBase * Tenths)) * months

C6_HighYieldPrincipalConstant ==
    pc \in {"loop", "final", "done", "failed"} =>
        /\ high_yield_principal = initial_investment
        /\ \A k \in 1..Len(records) :
              /\ records[k].HighYieldInterest = records[1].HighYieldInterest
              /\ records[k].HighYieldInterest =
                     Interest(initial_investment, high_yield_rate)

C6_Witness ==
    /\ pc = "done"
    /\ Len(records) = 60
    /\ high_yield_principal = initial_investment
    /\ records[60].HighYieldInterest = records[1].HighYieldInterest
    /\ records[60].HighYieldInterest > 0

\* C7: the recorded secondary (treasury) balance never decreases: each
\* month's closing balance is at least the previous month's, and month 1's
\* is at least the initial borrowed amount.
C7_TreasuryNonDecreasing ==
    \A k \in 1..Len(records) :
        /\ records[k].TreasuryBalance >= OpeningTreasury(k)
        /\ records[k].TreasuryBalance >= borrowed_amount

C7_Witness ==
    /\ pc = "done"
    /\ Len(records) = 60
    /\ records[1].TreasuryBalance > borrowed_amount
    /\ records[60].TreasuryBalance > records[59].TreasuryBalance

\* C8: the amount owed, borrowed_amount + cumulative loan interest, never
\* decreases across the recorded months and never falls below
\* borrowed_amount, in the records and in the plotted "Loan Balance" curve.
C8_OwedNonDecreasing ==
    /\ \A k \in 1..Len(records) :
          /\ Owed(k) >= borrowed_amount
          /\ k > 1 => Owed(k) >= Owed(k - 1)
    /\ pc = "done" =>
          /\ Len(loan_balance_series) = months
          /\ \A k \in 1..Len(loan_balance_series) :
                /\ loan_balance_series[k] >= borrowed_amount
                /\ k > 1 => loan_balance_series[k] >= loan_balance_series[k - 1]

C8_Witness ==
    /\ pc = "done"
    /\ Len(loan_balance_series) = 60
    /\ loan_balance_series[1] > borrowed_amount
    /\ loan_balance_series[60] > loan_balance_series[59]

\* C9: after the loop the final net value is initial capital + final
\* secondary balance - (borrowed amount + final cumulative loan interest),
\* the net profit is that minus the initial capital, and both are the last
\* record's figures.
C9_FinalNetValue ==
    pc \in {"final", "done"} =>
        /\ Len(records) = months
        /\ final_treasury = records[months].TreasuryBalance
        /\ total_loan_cost =
               borrowed_amount + records[months].CumulativeLoanInterest
        /\ investor_final =
               initial_investment + records[months].TreasuryBalance
               - (borrowed_amount + records[months].CumulativeLoanInterest)
        /\ net_profit = investor_final - initial_investment
        /\ net_profit =
               records[months].TreasuryBalance - borrowed_amount
               - records[months].CumulativeLoanInterest
        /\ investor_final = NetValue(months)

C9_Witness ==
    /\ pc = "final"
    /\ months = 12
    /\ Len(records) = 12
    /\ records[12].TreasuryBalance > records[1].TreasuryBalance
    /\ net_profit = records[12].TreasuryBalance - borrowed_amount
                    - records[12].CumulativeLoanInterest
    /\ net_profit # 0

\* C10: when the treasury rate is at least the borrowing rate, the
\* investor's net value never decreases from month to month and is at
\* least the initial capital after every month, in the records and in the
\* plotted "Your Net Value" curve, so the net profit is never negative.
C10_NetValueNonDecreasing ==
    treasury_rate >= borrowing_rate =>
        /\ \A k \in 1..Len(records) :
              /\ NetValue(k) >= initial_investment
              /\ k > 1 => NetValue(k) >= NetValue(k - 1)
        /\ pc \in {"final", "done"} => net_profit >= 0
        /\ pc = "done" =>
              /\ Len(net_value_series) = months
              /\ \A k \in 1..Len(net_value_series) :
                    /\ net_value_series[k] = NetValue(k)
                    /\ net_value_series[k] >= initial_investment
                    /\ k > 1 => net_value_series[k] >= net_value_series[k - 1]

C10_Witness ==
    /\ pc = "done"
    /\ treasury_rate = borrowing_rate
    /\ leverage_ratio = LeverageMax
    /\ Len(net_value_series) = 60
    /\ net_value_series[60] > net_value_series[1]
    /\ net_value_series[1] > initial_investment

\* C10, second half: with the treasury rate below the borrowing rate a
\* negative net profit is reached (stated as its negation; TLC reaches a
\* state that violates it)
C10_NeverNegativeBelowBorrowRate ==
    (pc = "done" /\ treasury_rate < borrowing_rate) => net_profit >= 0

=============================================================================
